---------------------------- MODULE Spec2Model ----------------------------
(***************************************************************************)
(* Graph build coordination and query orchestration of git-mcp:            *)
(*   src/src/api/tools/repoHandlers/graphTools.ts        (the registry,    *)
(*       GraphCreationService, getFunctionInfo)                            *)
(*   src/src/api/tools/repoHandlers/DefaultRepoHandler.ts (the             *)
(*       fetchUsageCodeExamples tool callback)                             *)
(*                                                                         *)
(* Time.  The clock advances in ticks of 60/TicksPerMinute seconds.  A     *)
(* registry record holds `age`, the value of Date.now() - entry.timestamp  *)
(* in ticks: stamping Date.now() is age 0, keeping the old timestamp is    *)
(* keeping the age, and every tick of the clock ages every record.  Ages   *)
(* saturate at MaxAge, beyond the largest threshold the code compares      *)
(* with, so that the state space is finite.                                *)
(*                                                                         *)
(* The legacy map graphCreationLocks (graphTools.ts:50) is written by      *)
(* setCreationLock and clearStaleLocks and read by nothing that reaches a  *)
(* response or the registry; it is not part of the state here.             *)
(***************************************************************************)
EXTENDS Integers, Sequences, FiniteSets, TLC

\* ------------------------------------------------------------ constants
TicksPerMinute == 2        \* resolution of the clock: one tick is 30 seconds
HardStaleMinutes == 20     \* graphTools.ts:134 and :347
SoftStaleMinutes == 10     \* graphTools.ts:157
ForceClearMinutes == 5     \* DefaultRepoHandler.ts:324
PhaseSwitchMinutes == 10   \* graphTools.ts:362
MaxCallers == 2            \* longest caller list the graph query returns here
MaxConns == 3              \* graph-store connections of the shared service

MaxAge == (HardStaleMinutes + 1) * TicksPerMinute
MaxAttempts == 15          \* graphTools.ts:287
GraceMinutes == 2          \* graphTools.ts:325
PollSleepSeconds == 30     \* graphTools.ts:293
\* Timers in whole ticks.
GraceTicks == GraceMinutes * TicksPerMinute
SleepTicks == (PollSleepSeconds * TicksPerMinute) \div 60

\* A string is a sequence of characters; the value undefined is a sequence no
\* string is equal to.
Undefined == <<"undefined">>
\* this.client = null
NoConn == 0

\* ------------------------------------------------------------ repositories
\* Strings are sequences of characters so that trim() is computed.
Owners == {Undefined, <<>>, <<" ">>, <<"o">>}
RepoNames == {<<"x">>, <<"y">>}
Repos == {Undefined, <<>>, <<" ">>} \cup RepoNames

\* The RepoData values a request is made with: the two valid ones and the
\* ones with one part missing, empty or blank.
RepoDatas ==
  {[owner |-> o, repo |-> r] : o \in {<<"o">>}, r \in Repos}
    \cup {[owner |-> o, repo |-> <<"x">>] : o \in Owners}

RECURSIVE TrimLeft(_)
TrimLeft(s) ==
  IF s # <<>> /\ Head(s) = " " THEN TrimLeft(Tail(s)) ELSE s

RECURSIVE TrimRight(_)
TrimRight(s) ==
  IF s # <<>> /\ s[Len(s)] = " " THEN TrimRight(SubSeq(s, 1, Len(s) - 1)) ELSE s

Trim(s) == TrimRight(TrimLeft(s))

\* JavaScript's !s for a string-or-undefined value.
Falsy(s) == s = Undefined \/ s = <<>>

InvalidRepoData(rd) ==
  \/ Falsy(rd.owner)
  \/ Falsy(rd.repo)
  \/ Trim(rd.owner) = <<>>
  \/ Trim(rd.repo) = <<>>

RepoKey(rd) == <<rd.owner, rd.repo>>
GraphName(rd) == rd.repo

ValidRepoDatas == {rd \in RepoDatas : ~InvalidRepoData(rd)}
Keys == {RepoKey(rd) : rd \in ValidRepoDatas}

\* ------------------------------------------------------------ the registry
Entry(a) == [inProgress |-> TRUE, age |-> a, phase |-> "Initializing analysis"]

ElapsedMinutes(entry) == entry.age \div TicksPerMinute

NotInProgressView ==
  [inProgress |-> FALSE, elapsedMinutes |-> 0,
   estimatedRemaining |-> "N/A", phase |-> "Complete"]

\* The registry is a Map: a function whose domain is the set of keys that have
\* a record.
Has(reg, k) == k \in DOMAIN reg
Delete(reg, k) == [x \in DOMAIN reg \ {k} |-> reg[x]]
Set(reg, k, entry) == [x \in DOMAIN reg \cup {k} |-> IF x = k THEN entry ELSE reg[x]]

\* getCreationProgress: the view it returns and the registry it leaves.
\* A progress view that reports the phase stored in the record.
GetCreationProgress_StoredPhase(reg, k) ==
  IF Has(reg, k) /\ reg[k].inProgress
  THEN LET elapsedMinutes == ElapsedMinutes(reg[k]) IN
       IF elapsedMinutes > HardStaleMinutes
       THEN [view |-> NotInProgressView, registry |-> Delete(reg, k)]
       ELSE [view |->
               [inProgress |-> TRUE,
                elapsedMinutes |-> elapsedMinutes,
                estimatedRemaining |->
                  IF elapsedMinutes < PhaseSwitchMinutes
                  THEN "5-10 minutes" ELSE "Should complete soon",
                phase |-> reg[k].phase],
             registry |-> reg]
  ELSE [view |-> NotInProgressView, registry |-> reg]


GetCreationProgress(reg, k) ==
  IF Has(reg, k) /\ reg[k].inProgress
  THEN LET elapsedMinutes == ElapsedMinutes(reg[k]) IN
       IF elapsedMinutes > HardStaleMinutes
       THEN [view |-> NotInProgressView, registry |-> Delete(reg, k)]
       ELSE [view |->
               [inProgress |-> TRUE,
                elapsedMinutes |-> elapsedMinutes,
                estimatedRemaining |->
                  IF elapsedMinutes < PhaseSwitchMinutes
                  THEN "5-10 minutes" ELSE "Should complete soon",
                phase |->
                  IF elapsedMinutes < PhaseSwitchMinutes
                  THEN "Analyzing repository" ELSE "Completing analysis"],
             registry |-> reg]
  ELSE [view |-> NotInProgressView, registry |-> reg]

\* isCreationInProgress: its result and the registry it leaves.
IsCreationInProgress(reg, k) ==
  IF Has(reg, k) /\ reg[k].inProgress
  THEN IF ElapsedMinutes(reg[k]) > HardStaleMinutes
       THEN [result |-> FALSE, registry |-> Delete(reg, k)]
       ELSE [result |-> TRUE, registry |-> reg]
  ELSE [result |-> FALSE, registry |-> reg]

\* clearStaleLocks: the registry it leaves.
ClearStaleLocks(reg, k) ==
  IF Has(reg, k) /\ ElapsedMinutes(reg[k]) > SoftStaleMinutes
  THEN Delete(reg, k)
  ELSE reg

\* A setCreationLock whose false branch leaves the record in place.
SetCreationLock_NoDelete(reg, k, status) ==
  IF status
  THEN Set(reg, k, Entry(IF Has(reg, k) THEN reg[k].age ELSE 0))
  ELSE reg

\* A setCreationLock that stamps Date.now() whether or not a record exists.
SetCreationLock_Restamp(reg, k, status) ==
  IF status THEN Set(reg, k, Entry(0)) ELSE Delete(reg, k)

\* A setCreationLock whose false branch stores inProgress = false.
SetCreationLock_StoreFalse(reg, k, status) ==
  IF status
  THEN Set(reg, k, Entry(IF Has(reg, k) THEN reg[k].age ELSE 0))
  ELSE IF Has(reg, k)
  THEN Set(reg, k, [reg[k] EXCEPT !.inProgress = FALSE])
  ELSE reg


\* setCreationLock: the registry it leaves.  `existing?.timestamp ||
\* Date.now()` keeps the timestamp of a record that is there.
SetCreationLock(reg, k, status) ==
  IF status
  THEN Set(reg, k, Entry(IF Has(reg, k) THEN reg[k].age ELSE 0))
  ELSE Delete(reg, k)

\* ------------------------------------------------------------ responses
\* The fixed response shapes of the tool (the distinguishing phrase is `kind`).
NoResp == [kind |-> "none"]
ValidationError == [kind |-> "Error: Invalid repository data"]
SearchTimeout == [kind |-> "Search Timeout"]
NoCallingFunctionsFound == [kind |-> "No calling functions found"]
StillInProgress(k, view) ==
  [kind |-> "Graph Creation Still In Progress", key |-> k,
   phase |-> view.phase, elapsedMinutes |-> view.elapsedMinutes,
   estimatedRemaining |-> view.estimatedRemaining]
CreationInProgress(k, view) ==
  [kind |-> "Graph Creation In Progress", key |-> k,
   phase |-> view.phase, elapsedMinutes |-> view.elapsedMinutes,
   estimatedRemaining |-> view.estimatedRemaining]
StartingCodeAnalysis(k) == [kind |-> "Starting Code Analysis", key |-> k]
\* What the callback mapped over the callers returns for caller i:
\* "Code Example i: name" with its snippet or fallback.
CodeExample(i, name, body) == [index |-> i, name |-> name, body |-> body]
\* "Found N functions" and the code examples in the order of the array that
\* Promise.all resolved with.
CodeExampleResults(rows, codeExamples) ==
  [kind |-> "Code Example Results", found |-> Len(rows),
   examples |-> codeExamples]
\* What a rejected promise carries instead of a response.
Rejected == [kind |-> "rejected"]

\* ------------------------------------------------------------ graph missing
\* A graph-missing branch that issues the build request and forgets the lock.
GraphMissingBranch_NoLock(reg, k) ==
  LET r1 == ClearStaleLocks(reg, k)
      progress == GetCreationProgress(r1, k)
      r2 == IF progress.view.inProgress
               /\ progress.view.elapsedMinutes >= ForceClearMinutes
            THEN Delete(SetCreationLock(progress.registry, k, FALSE), k)
            ELSE progress.registry
      finalProgress == GetCreationProgress(r2, k)
  IN IF finalProgress.view.inProgress
     THEN [resp |-> CreationInProgress(k, finalProgress.view),
           registry |-> finalProgress.registry,
           trigger |-> FALSE]
     ELSE [resp |-> StartingCodeAnalysis(k),
           registry |-> finalProgress.registry,
           trigger |-> TRUE]

\* A graph-missing branch that starts a build whatever the registry holds.
GraphMissingBranch_AlwaysStart(reg, k) ==
  [resp |-> StartingCodeAnalysis(k),
   registry |-> SetCreationLock(Delete(reg, k), k, TRUE),
   trigger |-> TRUE]

\* A graph-missing branch that decides on a progress snapshot taken before
\* the stale locks are evicted.
GraphMissingBranch_SnapshotFirst(reg, k) ==
  LET snapshot == GetCreationProgress(reg, k)
      r1 == ClearStaleLocks(snapshot.registry, k)
      progress == GetCreationProgress(r1, k)
      r2 == IF progress.view.inProgress
               /\ progress.view.elapsedMinutes >= ForceClearMinutes
            THEN Delete(SetCreationLock(progress.registry, k, FALSE), k)
            ELSE progress.registry
  IN IF snapshot.view.inProgress
     THEN [resp |-> CreationInProgress(k, snapshot.view),
           registry |-> r2,
           trigger |-> FALSE]
     ELSE [resp |-> StartingCodeAnalysis(k),
           registry |-> SetCreationLock(r2, k, TRUE),
           trigger |-> TRUE]

\* A graph-missing branch that clears by force whatever lock it finds.
GraphMissingBranch_ClearsAtOnce(reg, k) ==
  LET r1 == ClearStaleLocks(reg, k)
      progress == GetCreationProgress(r1, k)
      r2 == IF progress.view.inProgress
            THEN Delete(SetCreationLock(progress.registry, k, FALSE), k)
            ELSE progress.registry
      finalProgress == GetCreationProgress(r2, k)
  IN IF finalProgress.view.inProgress
     THEN [resp |-> CreationInProgress(k, finalProgress.view),
           registry |-> finalProgress.registry,
           trigger |-> FALSE]
     ELSE [resp |-> StartingCodeAnalysis(k),
           registry |-> SetCreationLock(finalProgress.registry, k, TRUE),
           trigger |-> TRUE]


\* The graph-missing branch of the callback, which runs without an await:
\* the response it returns, the registry it leaves, whether it issued the
\* external build request.
GraphMissingBranch(reg, k) ==
  LET r1 == ClearStaleLocks(reg, k)
      progress == GetCreationProgress(r1, k)
      r2 == IF progress.view.inProgress
               /\ progress.view.elapsedMinutes >= ForceClearMinutes
            THEN Delete(SetCreationLock(progress.registry, k, FALSE), k)
            ELSE progress.registry
      finalProgress == GetCreationProgress(r2, k)
  IN IF finalProgress.view.inProgress
     THEN [resp |-> CreationInProgress(k, finalProgress.view),
           registry |-> finalProgress.registry,
           trigger |-> FALSE]
     ELSE [resp |-> StartingCodeAnalysis(k),
           registry |-> SetCreationLock(finalProgress.registry, k, TRUE),
           trigger |-> TRUE]

\* An empty-callers branch that never consults the registry.
EmptyCallersBranch_NoProgressCheck(reg, k) ==
  [resp |-> NoCallingFunctionsFound, registry |-> reg,
   progress |-> IF GetCreationProgress(reg, k).view.inProgress
                THEN "active" ELSE "idle"]

\* An empty-callers branch that sets the lock when no build is active.
EmptyCallersBranch_SetsLock(reg, k) ==
  LET creationProgress == GetCreationProgress(reg, k)
  IN [resp |-> IF creationProgress.view.inProgress
               THEN StillInProgress(k, creationProgress.view)
               ELSE NoCallingFunctionsFound,
      registry |-> IF creationProgress.view.inProgress
                   THEN creationProgress.registry
                   ELSE SetCreationLock(creationProgress.registry, k, TRUE),
      progress |-> IF creationProgress.view.inProgress THEN "active" ELSE "idle"]

\* An empty-callers branch that takes the lock of the key away.
EmptyCallersBranch_ClearsLock(reg, k) ==
  LET creationProgress == GetCreationProgress(reg, k)
  IN [resp |-> IF creationProgress.view.inProgress
               THEN StillInProgress(k, creationProgress.view)
               ELSE NoCallingFunctionsFound,
      registry |-> Delete(creationProgress.registry, k),
      progress |-> IF creationProgress.view.inProgress THEN "active" ELSE "idle"]

\* The empty-callers branch of the lookup pipeline: the response it returns,
\* the registry it leaves, what getCreationProgress reported.
EmptyCallersBranch(reg, k) ==
  LET creationProgress == GetCreationProgress(reg, k)
  IN [resp |-> IF creationProgress.view.inProgress
               THEN StillInProgress(k, creationProgress.view)
               ELSE NoCallingFunctionsFound,
      registry |-> creationProgress.registry,
      progress |-> IF creationProgress.view.inProgress THEN "active" ELSE "idle"]

\* ------------------------------------------------------------ state
VARIABLES
  registry,   \* the global creation registry
  graphs,     \* the names of the graphs the graph store holds
  svcClient,  \* GraphCreationService.client of the singleton service
  conn,       \* the state of each connection the service has opened
  req,        \* the tool callback invocations
  pipe,       \* the lookup pipeline each invocation races against its timer
  lastOp,     \* the registry operation called last, while nothing followed it
  trig,       \* the build request each invocation issued last, while in flight
  bg          \* the startBackgroundCreation routine and its deferred cleanup

vars == <<registry, graphs, svcClient, conn, req, pipe, lastOp, trig, bg>>

Slots == {"r1", "r2"}
ConnIds == 1..MaxConns
CallerNames == {"f", "g"}
\* What the graph query can return: up to MaxCallers rows of distinct callers,
\* in any order.
QueryRows ==
  {rows \in UNION {[1..n -> CallerNames] : n \in 0..MaxCallers} :
     \A i, j \in DOMAIN rows : rows[i] = rows[j] => i = j}

NoOp == [op |-> "none"]

IdleReq ==
  [pc |-> "idle", repoData |-> [owner |-> Undefined, repo |-> Undefined],
   client |-> NoConn, graphExists |-> "unknown", seen |-> -2,
   resp |-> NoResp, timedOut |-> FALSE, outcome |-> "none",
   triggers |-> 0, calls |-> {}]

IdlePipe ==
  [pc |-> "none", conn |-> "none", rows |-> <<>>, progress |-> "none",
   fetched |-> <<>>, order |-> <<>>, pending |-> NoResp, rejected |-> FALSE]

\* The build request of the graph-missing branch: none in flight, or the
\* fetch() for key k whose promise has not settled.
NoTrigger == [status |-> "none", key |-> <<>>]
Triggered(k) == [status |-> "pending", key |-> k]
\* How the fetch() of the build request ends: a 2xx response, another
\* status, the 5 second AbortSignal, or a network error.
TriggerOutcomes == {"ok", "non2xx", "timeout", "error"}

\* startBackgroundCreation before it is called.  `sleep` and `timer` are the
\* ticks left on the 30 second poll timer and on the deferred cleanup timer
\* (-1: not set), `sinceEnd` the ticks since the routine ended, `age` the
\* ticks since it was called.
IdleBg ==
  [pc |-> "idle", repoData |-> [owner |-> Undefined, repo |-> Undefined],
   attempts |-> 0, sleep |-> 0, way |-> "none", outcome |-> "none",
   timer |-> -1, sinceEnd |-> 0, cleared |-> FALSE, age |-> 0]

\* One tick of the clock for the timers of the background routine.
TickBg(b) ==
  [b EXCEPT !.sleep = IF @ > 0 THEN @ - 1 ELSE @,
            !.timer = IF @ > 0 THEN @ - 1 ELSE @,
            !.sinceEnd = IF b.pc = "ended" /\ @ < GraceTicks THEN @ + 1 ELSE @,
            !.age = IF b.pc # "idle" /\ @ < MaxAge THEN @ + 1 ELSE @]

\* The state after the modules are loaded, with the graphs G in the store.
InitWith(G) ==
  /\ registry = <<>>
  /\ graphs = G
  /\ svcClient = NoConn
  /\ conn = [c \in ConnIds |-> "closed"]
  /\ req = [s \in Slots |-> IdleReq]
  /\ pipe = [s \in Slots |-> IdlePipe]
  /\ lastOp = NoOp
  /\ trig = [s \in Slots |-> NoTrigger]
  /\ bg = IdleBg

\* ------------------------------------------------------------ environment
\* The clock advances by one tick: every record is one tick older.  A
\* callback in "done" has just returned: it is retired before the clock moves
\* on, so that "done" is the instant of the return.  A build request in
\* flight settles within its 5 second AbortSignal, before the next tick.
Tick ==
  /\ \A s \in Slots : req[s].pc # "done"
  /\ \A s \in Slots : trig[s].status = "none"
  /\ registry' = [k \in DOMAIN registry |->
                    [registry[k] EXCEPT !.age = IF @ < MaxAge THEN @ + 1 ELSE @]]
  /\ lastOp' = NoOp
  /\ bg' = TickBg(bg)
  /\ UNCHANGED trig
  /\ UNCHANGED <<graphs, svcClient, conn, req, pipe>>

\* The external analysis service finishes a build: the graph appears.
GraphCreated(g) ==
  /\ g \notin graphs
  /\ graphs' = graphs \cup {g}
  /\ lastOp' = NoOp
  /\ UNCHANGED <<trig, bg>>
  /\ UNCHANGED <<registry, svcClient, conn, req, pipe>>

\* ------------------------------------------------------------ the tool callback
\* What the race of one file fetch with its 5 second timer ends with: the
\* file's text, null (not found), a rejection, or the timer first.
FetchOutcomes == {"text", "null", "error", "timeout"}

\* An enrichment that renders whatever the fetch resolved with, null included.
EnrichBody_NoNullCheck(outcome) ==
  IF outcome \in {"text", "null"} THEN "snippet" ELSE "fallback"

\* The body of one code example: the rendered snippet when fileContent is a
\* string, the fallback text on every other path.
EnrichBody(outcome) == IF outcome = "text" THEN "snippet" ELSE "fallback"

\* A connection id no one refers to and that is not open.
FreeConn(c) ==
  /\ conn[c] = "closed"
  /\ svcClient # c
  /\ \A s \in Slots : req[s].client # c

\* The age of the record of k, -1 when there is none.
SeenAge(reg, k) == IF Has(reg, k) THEN reg[k].age ELSE -1

\* The finally block: graphService.disconnect() closes this.client when there
\* is one and is awaited; with no client the callback returns at once.
Finally(s, r) ==
  IF svcClient = NoConn
  THEN /\ req' = [req EXCEPT ![s] =
                    [r EXCEPT !.pc = "done", !.outcome = "returned",
                              !.client = NoConn]]
       /\ conn' = conn
  ELSE /\ req' = [req EXCEPT ![s] =
                    [r EXCEPT !.pc = "disconnecting", !.client = NoConn,
                              !.calls = @ \cup {"close"}]]
       /\ conn' = [conn EXCEPT ![svcClient] = "closed"]

\* checkGraphExists returned false: the graph-missing branch, then finally.
\* The build request is issued and not awaited.
GraphMissing(s, r) ==
  LET k == RepoKey(r.repoData)
      b == GraphMissingBranch(registry, k)
  IN /\ registry' = b.registry
     /\ trig' = IF b.trigger THEN [trig EXCEPT ![s] = Triggered(k)] ELSE trig
     /\ Finally(s, [r EXCEPT !.graphExists = "no",
                             !.seen = SeenAge(registry, k),
                             !.resp = b.resp,
                             !.triggers = IF b.trigger THEN 1 ELSE 0,
                             !.calls = IF b.trigger THEN @ \cup {"trigger"} ELSE @])

\* A checkGraphExists without its catch block: the failure of connect() or
\* list() leaves the callback.
CheckFailed_Raises(s, r) ==
  /\ registry' = registry
  /\ trig' = trig
  /\ conn' = conn
  /\ req' = [req EXCEPT ![s] = [r EXCEPT !.pc = "done", !.outcome = "raised"]]

\* connect() or list() of checkGraphExists rejected: the catch block logs and
\* returns false, and the callback goes on as for an absent graph.
CheckFailed(s, r) == GraphMissing(s, r)

\* A build request that - unlike the then/catch handlers of the code - takes
\* the lock back when the request failed.
TriggerSettled_ClearOnFailure(reg, k, outcome) ==
  IF outcome = "ok" THEN reg ELSE Delete(reg, k)

\* Then/catch handlers that release the lock once the build request settled.
TriggerSettled_ClearAlways(reg, k, outcome) == Delete(reg, k)


\* The registry after the then/catch handlers of the build request ran: they
\* log the outcome and nothing else.
TriggerSettled(reg, k, outcome) == reg

\* The promise of the build request settles.
TriggerDone(s, outcome) ==
  /\ trig[s].status = "pending"
  /\ trig' = [trig EXCEPT ![s] = NoTrigger]
  /\ registry' = TriggerSettled(registry, trig[s].key, outcome)
  /\ lastOp' = [op |-> "triggerSettled", key |-> trig[s].key,
                outcome |-> outcome, slot |-> s]
  /\ UNCHANGED <<graphs, svcClient, conn, req, pipe, bg>>

\* The caller has taken the result of the callback.  A pipeline that is
\* still running keeps the repository it was started for.
Retire(s) ==
  /\ req[s].pc = "done"
  /\ req' = [req EXCEPT ![s] =
               IF pipe[s].pc \in {"none", "settled"}
               THEN IdleReq
               ELSE [IdleReq EXCEPT !.repoData = req[s].repoData]]
  /\ lastOp' = NoOp
  /\ UNCHANGED <<trig, bg>>
  /\ UNCHANGED <<registry, graphs, svcClient, conn, pipe>>

\* The callback is invoked: validation, then checkGraphExists up to its
\* first await (connect() when the service has no client, list() otherwise).
Invoke(s, rd) ==
  /\ req[s].pc = "idle"
  /\ pipe[s].pc \in {"none", "settled"}
  /\ pipe' = [pipe EXCEPT ![s] = IdlePipe]
  /\ lastOp' = NoOp
  /\ UNCHANGED bg
  /\ UNCHANGED <<graphs, svcClient>>
  /\ LET r == [IdleReq EXCEPT !.repoData = rd] IN
     IF InvalidRepoData(rd)
     THEN /\ Finally(s, [r EXCEPT !.resp = ValidationError])
          /\ UNCHANGED <<registry, trig>>
     ELSE IF svcClient = NoConn
     THEN /\ req' = [req EXCEPT ![s] =
                       [r EXCEPT !.pc = "connecting", !.calls = {"connect"}]]
          /\ UNCHANGED <<registry, conn, trig>>
     ELSE IF conn[svcClient] = "open"
     THEN /\ req' = [req EXCEPT ![s] =
                       [r EXCEPT !.pc = "listing", !.client = svcClient,
                                 !.calls = {"list"}]]
          /\ UNCHANGED <<registry, conn, trig>>
     ELSE \* list() on a client that was closed rejects
          CheckFailed(s, [r EXCEPT !.calls = {"list"}])

\* createFalkorDBConnection() of connect() settles.
ConnectDone(s, ok) ==
  /\ req[s].pc = "connecting"
  /\ lastOp' = NoOp
  /\ UNCHANGED bg
  /\ UNCHANGED <<graphs, pipe>>
  /\ IF ok
     THEN /\ \E c \in ConnIds : FreeConn(c)
          /\ LET c == CHOOSE c \in ConnIds :
                        FreeConn(c) /\ \A d \in ConnIds : FreeConn(d) => c <= d
             IN /\ conn' = [conn EXCEPT ![c] = "open"]
                /\ svcClient' = c
                /\ req' = [req EXCEPT ![s] =
                             [@ EXCEPT !.pc = "listing", !.client = c,
                                       !.calls = @ \cup {"list"}]]
          /\ UNCHANGED <<registry, trig>>
     ELSE /\ CheckFailed(s, req[s])
          /\ UNCHANGED svcClient

\* client.list() settles.
ListDone(s, ok) ==
  /\ req[s].pc = "listing"
  /\ lastOp' = NoOp
  /\ UNCHANGED bg
  /\ UNCHANGED <<graphs, svcClient>>
  /\ IF ok /\ GraphName(req[s].repoData) \in graphs
     THEN \* the race starts: the pipeline opens its own connection
          /\ req' = [req EXCEPT ![s] =
                       [@ EXCEPT !.pc = "racing", !.graphExists = "yes",
                                 !.calls = @ \cup {"connect"}]]
          /\ pipe' = [pipe EXCEPT ![s] = [IdlePipe EXCEPT !.pc = "connecting"]]
          /\ UNCHANGED <<registry, conn, trig>>
     ELSE IF ok
     THEN /\ GraphMissing(s, req[s])
          /\ UNCHANGED pipe
     ELSE /\ CheckFailed(s, req[s])
          /\ UNCHANGED pipe

\* A race whose late pipeline result replaces the response already chosen.
Settle_Late(s, r, p, result) ==
  /\ pipe' = [pipe EXCEPT ![s] =
                [p EXCEPT !.pc = "settled", !.rejected = (result = Rejected)]]
  /\ IF r.pc = "racing"
     THEN Finally(s, [r EXCEPT !.resp = IF result = Rejected
                                        THEN SearchTimeout ELSE result])
     ELSE /\ req' = [req EXCEPT ![s] =
                       [r EXCEPT !.resp = IF r.pc = "idle" \/ result = Rejected
                                          THEN @ ELSE result]]
          /\ conn' = conn

\* The pipeline's promise settles with `result`; the callback, when it still
\* awaits the race, turns a rejection into the timeout advisory.
Settle(s, r, p, result) ==
  /\ pipe' = [pipe EXCEPT ![s] =
                [p EXCEPT !.pc = "settled", !.rejected = (result = Rejected)]]
  /\ IF r.pc = "racing"
     THEN Finally(s, [r EXCEPT !.resp = IF result = Rejected
                                        THEN SearchTimeout ELSE result])
     ELSE /\ req' = [req EXCEPT ![s] = r]
          /\ conn' = conn

\* A pipeline that leaves without closing its connection.
PipeClose_Skipped(s, r, p, result) == Settle(s, r, p, result)

\* The finally of the pipeline: client.close() is issued and awaited.
PipeClose(s, r, p, result) ==
  /\ pipe' = [pipe EXCEPT ![s] =
                [p EXCEPT !.pc = "closing", !.conn = "closed", !.pending = result]]
  /\ req' = [req EXCEPT ![s] = [r EXCEPT !.calls = @ \cup {"close"}]]
  /\ conn' = conn

\* createFalkorDBConnection() of the pipeline settles.
PipeConnectDone(s, ok) ==
  /\ pipe[s].pc = "connecting"
  /\ lastOp' = NoOp
  /\ UNCHANGED <<trig, bg>>
  /\ UNCHANGED <<graphs, svcClient, registry>>
  /\ IF ok
     THEN /\ pipe' = [pipe EXCEPT ![s] =
                        [@ EXCEPT !.pc = "querying", !.conn = "open"]]
          /\ req' = [req EXCEPT ![s] = [@ EXCEPT !.calls = @ \cup {"query"}]]
          /\ conn' = conn
     ELSE Settle(s, req[s], pipe[s], Rejected)

\* graph.query() of getFunctionInfo settles.
QueryDone(s, ok, rows) ==
  /\ pipe[s].pc = "querying"
  /\ lastOp' = IF ok /\ rows = <<>>
               THEN [op |-> "emptyCallersBranch",
                     key |-> RepoKey(req[s].repoData),
                     progress |->
                       EmptyCallersBranch(registry, RepoKey(req[s].repoData)).progress,
                     before |-> SeenAge(registry, RepoKey(req[s].repoData))]
               ELSE NoOp
  /\ UNCHANGED <<trig, bg>>
  /\ UNCHANGED <<graphs, svcClient>>
  /\ IF ~ok
     THEN /\ PipeClose(s, req[s], pipe[s], Rejected)
          /\ UNCHANGED registry
     ELSE IF rows = <<>>
     THEN LET b == EmptyCallersBranch(registry, RepoKey(req[s].repoData))
          IN /\ registry' = b.registry
             /\ PipeClose(s, req[s], [pipe[s] EXCEPT !.progress = b.progress], b.resp)
     ELSE /\ pipe' = [pipe EXCEPT ![s] = [@ EXCEPT !.pc = "branch", !.rows = rows]]
          /\ req' = [req EXCEPT ![s] = [@ EXCEPT !.calls = @ \cup {"getRepoBranch"}]]
          /\ UNCHANGED <<registry, conn>>

\* getRepoBranch() settles; on success every caller's file fetch starts.
BranchDone(s, ok) ==
  /\ pipe[s].pc = "branch"
  /\ lastOp' = NoOp
  /\ UNCHANGED <<trig, bg>>
  /\ UNCHANGED <<graphs, svcClient, registry>>
  /\ IF ok
     THEN /\ pipe' = [pipe EXCEPT ![s] =
                        [@ EXCEPT !.pc = "enriching",
                                  !.fetched = [i \in 1..Len(pipe[s].rows) |-> "pending"]]]
          /\ req' = [req EXCEPT ![s] = [@ EXCEPT !.calls = @ \cup {"fetchFile"}]]
          /\ conn' = conn
     ELSE PipeClose(s, req[s], pipe[s], Rejected)

\* An array of results in the order in which the promises settled.
PromiseAll_SettleOrder(values, order) ==
  [i \in DOMAIN order |-> values[order[i]]]

\* What Promise.all resolves with when the promises of the input array have
\* resolved with `values`, having settled in the order `order`: the values
\* in the order of the input array.
PromiseAll(values, order) == values

\* The enrichment of caller i ends; the last one to end completes Promise.all.
EnrichDone(s, i, outcome) ==
  /\ pipe[s].pc = "enriching"
  /\ i \in DOMAIN pipe[s].fetched
  /\ pipe[s].fetched[i] = "pending"
  /\ lastOp' = NoOp
  /\ UNCHANGED <<trig, bg>>
  /\ UNCHANGED <<graphs, svcClient, registry>>
  /\ LET fetched == [pipe[s].fetched EXCEPT ![i] = outcome]
         p == [pipe[s] EXCEPT !.fetched = fetched, !.order = Append(@, i)]
     IN IF \E j \in DOMAIN fetched : fetched[j] = "pending"
        THEN /\ pipe' = [pipe EXCEPT ![s] = p]
             /\ UNCHANGED <<req, conn>>
        ELSE PipeClose(s, req[s], p,
               CodeExampleResults(p.rows,
                 PromiseAll(
                   [j \in DOMAIN fetched |->
                      CodeExample(j, p.rows[j], EnrichBody(fetched[j]))],
                   p.order)))

\* client.close() of the pipeline settles.
PipeCloseDone(s, ok) ==
  /\ pipe[s].pc = "closing"
  /\ lastOp' = NoOp
  /\ UNCHANGED <<trig, bg>>
  /\ UNCHANGED <<graphs, svcClient, registry>>
  /\ Settle(s, req[s], pipe[s], IF ok THEN pipe[s].pending ELSE Rejected)

\* The 8 second timer of the race fires before the pipeline settled.
TimerFire(s) ==
  /\ req[s].pc = "racing"
  /\ lastOp' = NoOp
  /\ UNCHANGED <<trig, bg>>
  /\ UNCHANGED <<graphs, svcClient, registry, pipe>>
  /\ Finally(s, [req[s] EXCEPT !.resp = SearchTimeout, !.timedOut = TRUE])

\* this.client.close() of disconnect() settles: this.client = null and the
\* callback returns its response, or the rejection leaves the callback.
DisconnectDone(s, ok) ==
  /\ req[s].pc = "disconnecting"
  /\ lastOp' = NoOp
  /\ UNCHANGED <<trig, bg>>
  /\ UNCHANGED <<graphs, registry, conn, pipe>>
  /\ IF ok
     THEN /\ svcClient' = NoConn
          /\ req' = [req EXCEPT ![s] = [@ EXCEPT !.pc = "done", !.outcome = "returned"]]
     ELSE /\ svcClient' = svcClient
          /\ req' = [req EXCEPT ![s] = [@ EXCEPT !.pc = "done", !.outcome = "raised"]]

Step(s, rds) ==
  \/ \E rd \in rds : Invoke(s, rd)
  \/ Retire(s)
  \/ \E ok \in BOOLEAN : ConnectDone(s, ok)
  \/ \E ok \in BOOLEAN : ListDone(s, ok)
  \/ \E ok \in BOOLEAN : PipeConnectDone(s, ok)
  \/ \E ok \in BOOLEAN, rows \in QueryRows : QueryDone(s, ok, rows)
  \/ \E ok \in BOOLEAN : BranchDone(s, ok)
  \/ \E i \in 1..MaxCallers, outcome \in FetchOutcomes : EnrichDone(s, i, outcome)
  \/ \E ok \in BOOLEAN : PipeCloseDone(s, ok)
  \/ TimerFire(s)
  \/ \E ok \in BOOLEAN : DisconnectDone(s, ok)
  \/ \E outcome \in TriggerOutcomes : TriggerDone(s, outcome)

\* One invocation at a time, for one repository or with invalid repository
\* data, the clock and the graph store.
SeqRepoDatas == {rd \in RepoDatas : rd.repo # <<"y">>}

Init == \E G \in {{<<"y">>}, RepoNames} : InitWith(G)

Next ==
  \/ Step("r1", SeqRepoDatas)
  \/ Tick
  \/ \E g \in RepoNames : GraphCreated(g)

Spec == Init /\ [][Next]_vars

\* ------------------------------------------------------------ background build
\* A routine whose catch block lets the failure of the build request out.
BgOutcome_Rethrow(way) ==
  IF way \in {"non2xx", "timeout", "error"} THEN "raised" ELSE "returned"

\* How startBackgroundCreation leaves: the try returns or falls through, the
\* catch block logs; nothing is thrown again.
BgOutcome(way) == "returned"

\* A finally block that clears the lock with no delay.
BgEnd_ClearNow(b, way) ==
  [b EXCEPT !.pc = "ended", !.way = way, !.outcome = BgOutcome(way),
            !.timer = 0, !.sinceEnd = 0]

\* The finally block: the deferred cleanup is scheduled 2 minutes ahead and
\* the routine ends.
BgEnd(b, way) ==
  [b EXCEPT !.pc = "ended", !.way = way, !.outcome = BgOutcome(way),
            !.timer = GraceTicks, !.sinceEnd = 0]

\* A polling loop that does not look at what its check returned.
BgChecked_KeepsPolling(b, exists) ==
  IF b.attempts = 0
  THEN IF exists THEN BgEnd(b, "exists") ELSE [b EXCEPT !.pc = "posting"]
  ELSE IF b.attempts < MaxAttempts
  THEN [b EXCEPT !.pc = "sleeping", !.attempts = @ + 1, !.sleep = SleepTicks]
  ELSE BgEnd(b, "exhausted")

\* checkGraphExists has returned `exists` to the routine: the double check
\* before the build request (attempts = 0) or a poll of the loop.
BgChecked(b, exists) ==
  IF exists
  THEN BgEnd(b, IF b.attempts = 0 THEN "exists" ELSE "appeared")
  ELSE IF b.attempts = 0
  THEN [b EXCEPT !.pc = "posting"]
  ELSE IF b.attempts < MaxAttempts
  THEN [b EXCEPT !.pc = "sleeping", !.attempts = @ + 1, !.sleep = SleepTicks]
  ELSE BgEnd(b, "exhausted")

\* checkGraphExists is called by the routine, up to its first await.
BgCheck(b) ==
  IF svcClient = NoConn
  THEN bg' = [b EXCEPT !.pc = "connecting"]
  ELSE IF conn[svcClient] = "open"
  THEN bg' = [b EXCEPT !.pc = "listing"]
  ELSE bg' = BgChecked(b, FALSE)

\* startBackgroundCreation(repoData) is called: the lock is set, then the
\* double check begins.
BgStart(rd) ==
  /\ bg.pc = "idle"
  /\ registry' = SetCreationLock(registry, RepoKey(rd), TRUE)
  /\ BgCheck([IdleBg EXCEPT !.repoData = rd])
  /\ lastOp' = NoOp
  /\ UNCHANGED <<graphs, svcClient, conn, req, pipe, trig>>

\* createFalkorDBConnection() of connect() settles for the routine.
BgConnectDone(ok) ==
  /\ bg.pc = "connecting"
  /\ lastOp' = NoOp
  /\ UNCHANGED <<registry, graphs, req, pipe, trig>>
  /\ IF ok
     THEN /\ \E c \in ConnIds : FreeConn(c)
          /\ LET c == CHOOSE c \in ConnIds :
                        FreeConn(c) /\ \A d \in ConnIds : FreeConn(d) => c <= d
             IN /\ conn' = [conn EXCEPT ![c] = "open"]
                /\ svcClient' = c
          /\ bg' = [bg EXCEPT !.pc = "listing"]
     ELSE /\ bg' = BgChecked(bg, FALSE)
          /\ UNCHANGED <<svcClient, conn>>

\* client.list() settles for the routine.
BgListDone(ok) ==
  /\ bg.pc = "listing"
  /\ bg' = BgChecked(bg, ok /\ GraphName(bg.repoData) \in graphs)
  /\ lastOp' = [op |-> "bgList", ok |-> ok]
  /\ UNCHANGED <<registry, graphs, svcClient, conn, req, pipe, trig>>

\* fetch(apiUrl) of the routine settles: a 2xx response starts the polling
\* loop, anything else throws into the catch block.
BgPostDone(outcome) ==
  /\ bg.pc = "posting"
  /\ bg' = IF outcome = "ok"
           THEN [bg EXCEPT !.pc = "sleeping", !.attempts = 1, !.sleep = SleepTicks]
           ELSE BgEnd(bg, outcome)
  /\ lastOp' = [op |-> "bgPost", outcome |-> outcome]
  /\ UNCHANGED <<registry, graphs, svcClient, conn, req, pipe, trig>>

\* The 30 second timer of the polling loop fires: the next check begins.
BgWake ==
  /\ bg.pc = "sleeping"
  /\ bg.sleep = 0
  /\ BgCheck(bg)
  /\ lastOp' = NoOp
  /\ UNCHANGED <<registry, graphs, svcClient, conn, req, pipe, trig>>

\* The deferred cleanup timer fires: setCreationLock(repoKey, false).
BgCleanup ==
  /\ bg.pc = "ended"
  /\ bg.timer = 0
  /\ registry' = SetCreationLock(registry, RepoKey(bg.repoData), FALSE)
  /\ bg' = [bg EXCEPT !.timer = -1, !.cleared = TRUE]
  /\ lastOp' = NoOp
  /\ UNCHANGED <<graphs, svcClient, conn, req, pipe, trig>>

BgRepoDatas == {rd \in ValidRepoDatas : rd.repo = <<"x">>}

NextBackground ==
  \/ \E rd \in BgRepoDatas : BgStart(rd)
  \/ \E ok \in BOOLEAN : BgConnectDone(ok)
  \/ \E ok \in BOOLEAN : BgListDone(ok)
  \/ \E outcome \in TriggerOutcomes : BgPostDone(outcome)
  \/ BgWake
  \/ BgCleanup
  \/ Tick
  \/ \E g \in RepoNames : GraphCreated(g)

\* The background routine, the clock and the graph store; the clock keeps
\* advancing and a timer that is due fires.
SpecBackground ==
  Init /\ [][NextBackground]_vars /\ WF_vars(Tick) /\ WF_vars(BgCleanup)

\* The background routine when every call it awaits settles: the timers
\* fire, the build request ends with its 10 minute AbortSignal at the latest,
\* and connect() and list() of the existence check resolve or reject.
SpecBackgroundSettling ==
  /\ Init /\ [][NextBackground]_vars
  /\ WF_vars(Tick) /\ WF_vars(BgCleanup) /\ WF_vars(BgWake)
  /\ WF_vars(\E ok \in BOOLEAN : BgConnectDone(ok))
  /\ WF_vars(\E ok \in BOOLEAN : BgListDone(ok))
  /\ WF_vars(\E outcome \in TriggerOutcomes : BgPostDone(outcome))

\* ------------------------------------------------------------ progress
\* One invocation at a time with what the runtime and the deadlines in the
\* code guarantee: the 8 second timer fires while the race is undecided, each
\* file fetch ends with its 5 second timer at the latest, the build request
\* ends with its 5 second AbortSignal at the latest, and the calls of the
\* pipeline on its own connection (connect, query, close) and its branch
\* lookup are answered.  No deadline covers connect() and list() of the
\* existence check or close() of disconnect(): nothing makes them answer.
NextFair == Step("r1", SeqRepoDatas)

FairPipeline(s) ==
  /\ WF_vars(TimerFire(s))
  /\ WF_vars(\E ok \in BOOLEAN : PipeConnectDone(s, ok))
  /\ WF_vars(\E ok \in BOOLEAN, rows \in QueryRows : QueryDone(s, ok, rows))
  /\ WF_vars(\E ok \in BOOLEAN : BranchDone(s, ok))
  /\ WF_vars(\E i \in 1..MaxCallers, outcome \in FetchOutcomes :
               EnrichDone(s, i, outcome))
  /\ WF_vars(\E ok \in BOOLEAN : PipeCloseDone(s, ok))
  /\ WF_vars(\E outcome \in TriggerOutcomes : TriggerDone(s, outcome))

SpecFair == Init /\ [][NextFair]_vars /\ FairPipeline("r1")

\* ------------------------------------------------------------ registry operations
\* The operations of GraphCreationService on the registry, called directly.
\* lastOp keeps the call, the age of the record it found (-1: none) and, for
\* getCreationProgress, the call that came right before it.
OpSetCreationLock(k, status) ==
  /\ registry' = SetCreationLock(registry, k, status)
  /\ lastOp' = [op |-> "setCreationLock", key |-> k, status |-> status,
                before |-> SeenAge(registry, k)]
  /\ UNCHANGED <<graphs, svcClient, conn, req, pipe, trig, bg>>

OpGetCreationProgress(k) ==
  /\ registry' = GetCreationProgress(registry, k).registry
  /\ lastOp' = [op |-> "getCreationProgress", key |-> k,
                view |-> GetCreationProgress(registry, k).view,
                before |-> SeenAge(registry, k),
                prev |-> IF lastOp.op = "setCreationLock"
                         THEN lastOp ELSE [op |-> lastOp.op]]
  /\ UNCHANGED <<graphs, svcClient, conn, req, pipe, trig, bg>>

OpClearStaleLocks(k) ==
  /\ registry' = ClearStaleLocks(registry, k)
  /\ lastOp' = [op |-> "clearStaleLocks", key |-> k,
                before |-> SeenAge(registry, k)]
  /\ UNCHANGED <<graphs, svcClient, conn, req, pipe, trig, bg>>

OpIsCreationInProgress(k) ==
  /\ registry' = IsCreationInProgress(registry, k).registry
  /\ lastOp' = [op |-> "isCreationInProgress", key |-> k,
                result |-> IsCreationInProgress(registry, k).result,
                before |-> SeenAge(registry, k)]
  /\ UNCHANGED <<graphs, svcClient, conn, req, pipe, trig, bg>>

\* What the graph-missing branch of a request for k does to the registry.
OpGraphMissingBranch(k) ==
  /\ registry' = GraphMissingBranch(registry, k).registry
  /\ lastOp' = [op |-> "graphMissingBranch", key |-> k,
                trigger |-> GraphMissingBranch(registry, k).trigger,
                before |-> SeenAge(registry, k),
                prev |-> IF lastOp.op = "getCreationProgress"
                         THEN [op |-> lastOp.op, key |-> lastOp.key,
                               before |-> lastOp.before]
                         ELSE [op |-> lastOp.op]]
  /\ UNCHANGED <<graphs, svcClient, conn, req, pipe, trig, bg>>

\* What the empty-callers branch of a request for k does to the registry.
OpEmptyCallersBranch(k) ==
  /\ registry' = EmptyCallersBranch(registry, k).registry
  /\ lastOp' = [op |-> "emptyCallersBranch", key |-> k,
                progress |-> EmptyCallersBranch(registry, k).progress,
                before |-> SeenAge(registry, k)]
  /\ UNCHANGED <<graphs, svcClient, conn, req, pipe, trig, bg>>

InitRegistry == InitWith({})

NextRegistry ==
  \/ \E k \in Keys, status \in BOOLEAN : OpSetCreationLock(k, status)
  \/ \E k \in Keys : OpGetCreationProgress(k)
  \/ \E k \in Keys : OpClearStaleLocks(k)
  \/ \E k \in Keys : OpIsCreationInProgress(k)
  \/ \E k \in Keys : OpGraphMissingBranch(k)
  \/ Tick

\* The registry operations and the graph-missing branch of requests, called
\* in any order as the clock advances.
SpecRegistry == InitRegistry /\ [][NextRegistry]_vars

\* The background routine next to requests for the same key that find the
\* graph absent.
NextBackgroundRequests ==
  \/ NextBackground
  \/ \E rd \in BgRepoDatas : OpGraphMissingBranch(RepoKey(rd))

SpecBackgroundRequests ==
  Init /\ [][NextBackgroundRequests]_vars /\ WF_vars(Tick) /\ WF_vars(BgCleanup)

\* ------------------------------------------------------------ concurrency
\* Two callbacks in flight at once, "r1" for repository x or with invalid
\* repository data and "r2" for repository y, against a store and a network
\* that do not fail of their own: a call fails only where the connection it
\* uses was closed under it.  list() in flight when its client is closed may
\* still be answered.  The build requests stay in flight: their settling
\* changes nothing a request reads (TriggerSettled).
ListOutcomes(s) ==
  IF req[s].client \in ConnIds /\ conn[req[s].client] = "closed"
  THEN BOOLEAN ELSE {TRUE}
ConcQueryRows == {<<>>, <<"f">>}
ConcFetchOutcomes == {"text"}

StepConc(s, rds) ==
  \/ \E rd \in rds : Invoke(s, rd)
  \/ Retire(s)
  \/ ConnectDone(s, TRUE)
  \/ \E ok \in ListOutcomes(s) : ListDone(s, ok)
  \/ PipeConnectDone(s, TRUE)
  \/ \E rows \in ConcQueryRows : QueryDone(s, TRUE, rows)
  \/ BranchDone(s, TRUE)
  \/ \E i \in 1..MaxCallers, outcome \in ConcFetchOutcomes : EnrichDone(s, i, outcome)
  \/ PipeCloseDone(s, TRUE)
  \/ TimerFire(s)
  \/ DisconnectDone(s, TRUE)

ConcRepoDatasX ==
  {rd \in RepoDatas : rd.repo = <<"x">> /\ rd.owner \in {<<>>, <<"o">>}}
ConcRepoDatasY == {rd \in RepoDatas : rd.repo = <<"y">>}

InitConc == \E G \in {{<<"x">>}, RepoNames} : InitWith(G)

NextConc ==
  \/ StepConc("r1", ConcRepoDatasX)
  \/ StepConc("r2", ConcRepoDatasY)

SpecConc == InitConc /\ [][NextConc]_vars

\* ------------------------------------------------------------ every writer of the registry
\* The registry operations called directly, the supervised routine and the
\* two branches in which a tool request touches the registry, all for one
\* key, as the clock advances.  The store does not fail of its own and the
\* build request of the routine is refused: the routine sets the lock, finds
\* the graph or fails to have it built, and clears the lock 2 minutes later.
AllRepoDatas == BgRepoDatas
AllKeys == {RepoKey(rd) : rd \in AllRepoDatas}

NextAll ==
  \/ \E k \in AllKeys, status \in BOOLEAN : OpSetCreationLock(k, status)
  \/ \E k \in AllKeys : OpGetCreationProgress(k)
  \/ \E k \in AllKeys : OpClearStaleLocks(k)
  \/ \E k \in AllKeys : OpIsCreationInProgress(k)
  \/ \E rd \in AllRepoDatas : BgStart(rd)
  \/ BgConnectDone(TRUE)
  \/ BgListDone(TRUE)
  \/ BgPostDone("non2xx")
  \/ BgCleanup
  \/ \E k \in AllKeys : OpGraphMissingBranch(k)
  \/ \E k \in AllKeys : OpEmptyCallersBranch(k)
  \/ Tick

SpecAll == Init /\ [][NextAll]_vars

\* ------------------------------------------------------------ one key, two requests
\* Two callbacks in flight at once for the same repository, whose graph the
\* store does not hold, as the clock advances; the store and the network do
\* not fail of their own.
SameKeyRepoDatas ==
  {rd \in ValidRepoDatas : rd.owner = <<"o">> /\ rd.repo = <<"x">>}

StepSameKey(s) ==
  \/ \E rd \in SameKeyRepoDatas : Invoke(s, rd)
  \/ Retire(s)
  \/ ConnectDone(s, TRUE)
  \/ \E ok \in ListOutcomes(s) : ListDone(s, ok)
  \/ DisconnectDone(s, TRUE)
  \/ TriggerDone(s, "ok")

InitSameKey == InitWith({<<"y">>})

\* The clock is followed until a record is SameKeyMinutes old, past the
\* 5 minutes after which a request clears the lock by force.
SameKeyMinutes == ForceClearMinutes + 1
TickSameKey ==
  /\ \A k \in DOMAIN registry : registry[k].age < SameKeyMinutes * TicksPerMinute
  /\ Tick

NextSameKey ==
  \/ StepSameKey("r1")
  \/ StepSameKey("r2")
  \/ TickSameKey

SpecSameKey == InitSameKey /\ [][NextSameKey]_vars


\* ------------------------------------------------------------ snippet rendering
\* The text of a fetched file is a sequence of characters; "\n" ends a line.
MaxText == 12
MaxLineLen == 1
ContextRadius == 5
PadWidth == 3
Chars == {"a", "\n"}

Max(a, b) == IF a >= b THEN a ELSE b
Min(a, b) == IF a <= b THEN a ELSE b

\* fileContent.split("\n"): the pieces between the newlines, at least one.
RECURSIVE Split(_)
Split(text) ==
  IF \A i \in DOMAIN text : text[i] # "\n"
  THEN <<text>>
  ELSE LET n == CHOOSE i \in DOMAIN text :
                  text[i] = "\n" /\ \A j \in 1..(i - 1) : text[j] # "\n"
       IN <<SubSeq(text, 1, n - 1)>> \o Split(SubSeq(text, n + 1, Len(text)))

\* Array.prototype.slice(start, end) of an array held as a sequence: indices
\* are 0-based, a negative index counts from the end, both are clamped to
\* the array, and an end at or before the start yields the empty array.
ArraySlice(arr, start, end) ==
  LET len == Len(arr)
      k == IF start < 0 THEN Max(len + start, 0) ELSE Min(start, len)
      final == IF end < 0 THEN Max(len + end, 0) ELSE Min(end, len)
  IN [i \in 1..Max(final - k, 0) |-> arr[k + i]]

Digits == <<"0", "1", "2", "3", "4", "5", "6", "7", "8", "9">>

\* Number.prototype.toString() of a natural number.
RECURSIVE NumberToString(_)
NumberToString(n) ==
  IF n < 10 THEN <<Digits[n + 1]>>
  ELSE NumberToString(n \div 10) \o <<Digits[(n % 10) + 1]>>

\* String.prototype.padStart(width) with spaces.
PadStart(str, width) ==
  [i \in 1..(width - Len(str)) |-> " "] \o str

\* A marker that compares with the 0-based index of the target line.
Marker_ZeroBased(actualLineNumber, line) ==
  IF actualLineNumber = line - 1 THEN ">>>" ELSE "   "

\* The marker of a rendered line.
Marker(actualLineNumber, line) ==
  IF actualLineNumber = line THEN ">>>" ELSE "   "

\* The snippet of the lines around `line`: one entry per rendered line with
\* its marker, its padded line number and its text.
RenderSnippet(fileContent, line) ==
  LET lines == Split(fileContent)
      centerLine == line - 1
      startLine == Max(0, centerLine - ContextRadius)
      endLine == Min(Len(lines) - 1, centerLine + ContextRadius)
      snippet == ArraySlice(lines, startLine, endLine + 1)
  IN [lineIndex \in DOMAIN snippet |->
        LET actualLineNumber == startLine + (lineIndex - 1) + 1
        IN [marker |-> Marker(actualLineNumber, line),
            number |-> PadStart(NumberToString(actualLineNumber), PadWidth),
            codeLine |-> snippet[lineIndex]]]

\* codeSnippet of one caller whose file fetch resolved with the string
\* fileContent: the rendered snippet, or the fallback for the empty string.
CodeSnippet(fileContent, line) ==
  IF fileContent = <<>>
  THEN [kind |-> "fallback", snippet |-> <<>>]
  ELSE [kind |-> "snippet", snippet |-> RenderSnippet(fileContent, line)]

\* The file texts and the target lines rendered.
FileContents ==
  {text \in UNION {[1..n -> Chars] : n \in 0..MaxText} :
     \A i \in DOMAIN Split(text) : Len(Split(text)[i]) <= MaxLineLen}
TargetLines == (0 - ContextRadius - 2)..(MaxText + 1 + ContextRadius + 2)

InitSnippet ==
  /\ registry = <<>>
  /\ graphs = {}
  /\ svcClient = NoConn
  /\ conn = [c \in ConnIds |-> "closed"]
  /\ req = [s \in Slots |-> IdleReq]
  /\ pipe = [s \in Slots |-> IdlePipe]
  /\ trig = [s \in Slots |-> NoTrigger]
  /\ bg = IdleBg
  /\ \E text \in FileContents, t \in TargetLines :
       lastOp = [op |-> "fileFetched", fileContent |-> text, line |-> t]

\* The enrichment of a caller at `line` renders the text it fetched.
OpRenderSnippet ==
  /\ lastOp.op = "fileFetched"
  /\ lastOp' = [op |-> "codeSnippet", fileContent |-> lastOp.fileContent,
                line |-> lastOp.line,
                result |-> CodeSnippet(lastOp.fileContent, lastOp.line)]
  /\ UNCHANGED <<registry, graphs, svcClient, conn, req, pipe, trig, bg>>

NextSnippet == OpRenderSnippet

SpecSnippet == InitSnippet /\ [][NextSnippet]_vars


\* ------------------------------------------------------------ claims
\* owner or repo missing or blank (empty after trimming)
Blank(str) == str = Undefined \/ Trim(str) = <<>>
InvalidRequest(rd) == Blank(rd.owner) \/ Blank(rd.repo)

\* The callback of slot s has chosen the response it returns.
Responded(s) == req[s].pc \in {"disconnecting", "done"}
\* The step in which the callback of slot s takes the graph-missing branch.
TakesGraphMissing(s) ==
  req[s].graphExists = "unknown" /\ req'[s].graphExists = "no"
KeyOf(s) == RepoKey(req[s].repoData)
Minutes(age) == age \div TicksPerMinute

\* C1: a request with a non-blank owner and repo whose existence check
\* reports the graph absent and whose key has no registry record returns the
\* "Starting Code Analysis" message and issues the external build request
\* exactly once, and getCreationProgress(key) in the state the responding step
\* leaves reports inProgress = true with elapsedMinutes = 0.
C1_GraphMissingIdle ==
  /\ [](\A s \in Slots :
          Responded(s) /\ ~InvalidRequest(req[s].repoData)
            /\ req[s].graphExists = "no" /\ req[s].seen = -1
          => /\ req[s].resp = StartingCodeAnalysis(KeyOf(s))
             /\ req[s].triggers = 1
             /\ "trigger" \in req[s].calls)
  /\ [][\A s \in Slots :
          TakesGraphMissing(s) /\ req'[s].seen = -1
          => LET view == GetCreationProgress(registry', RepoKey(req'[s].repoData)).view
             IN view.inProgress /\ view.elapsedMinutes = 0]_vars

C1_Witness ==
  \E s \in Slots :
    /\ req[s].pc = "done" /\ req[s].outcome = "returned"
    /\ req[s].graphExists = "no" /\ req[s].seen = -1
    /\ req[s].resp.kind = "Starting Code Analysis"
    /\ req[s].triggers = 1
    /\ GetCreationProgress(registry, KeyOf(s)).view.inProgress
    /\ GetCreationProgress(registry, KeyOf(s)).view.elapsedMinutes = 0

\* C2 as stated: a request whose existence check reports the graph absent and
\* whose key has a record not older than the 10 minute soft threshold returns
\* the "Graph Creation In Progress" message naming the key and issues no
\* build request.
C2_Original ==
  \A s \in Slots :
    Responded(s) /\ req[s].graphExists = "no"
      /\ req[s].seen >= 0 /\ req[s].seen <= SoftStaleMinutes * TicksPerMinute
    => /\ req[s].resp.kind = "Graph Creation In Progress"
       /\ req[s].resp.key = KeyOf(s)
       /\ req[s].triggers = 0

\* C2 as amended: with a record that reports fewer than 5 elapsed minutes the
\* request returns the "Graph Creation In Progress" message naming the key
\* with that record's view, issues no build request and leaves the registry
\* as it was; a build request is issued only when the key has no record or
\* its record reports 5 elapsed minutes or more.
C2_GraphMissingBuildActive ==
  /\ [](\A s \in Slots :
          Responded(s) /\ req[s].graphExists = "no"
          => /\ (req[s].seen >= 0 /\ Minutes(req[s].seen) < ForceClearMinutes
                 => /\ req[s].resp.kind = "Graph Creation In Progress"
                    /\ req[s].resp.key = KeyOf(s)
                    /\ req[s].resp.elapsedMinutes = Minutes(req[s].seen)
                    /\ req[s].triggers = 0)
             /\ (req[s].triggers > 0
                 => req[s].seen = -1 \/ Minutes(req[s].seen) >= ForceClearMinutes))
  /\ [][\A s \in Slots :
          TakesGraphMissing(s) /\ req'[s].seen >= 0
            /\ Minutes(req'[s].seen) < ForceClearMinutes
          => registry' = registry]_vars

C2_Witness ==
  \E s \in Slots :
    /\ req[s].pc = "done" /\ req[s].outcome = "returned"
    /\ req[s].graphExists = "no"
    /\ req[s].seen >= TicksPerMinute /\ Minutes(req[s].seen) < ForceClearMinutes
    /\ req[s].resp.kind = "Graph Creation In Progress"
    /\ req[s].triggers = 0
    /\ Has(registry, KeyOf(s))

\* C3: no request on the graph-missing branch returns the "in progress"
\* message for a record older than 10 minutes; with such a record the request
\* evicts it, sets a fresh lock and returns the "analysis started" message.
C3_EvictBeforeSnapshot ==
  /\ [](\A s \in Slots :
          Responded(s) /\ req[s].graphExists = "no"
            /\ req[s].seen > SoftStaleMinutes * TicksPerMinute
          => /\ req[s].resp = StartingCodeAnalysis(KeyOf(s))
             /\ req[s].triggers = 1)
  /\ [][\A s \in Slots :
          TakesGraphMissing(s)
            /\ req'[s].seen > SoftStaleMinutes * TicksPerMinute
          => LET k == RepoKey(req'[s].repoData)
             IN Has(registry', k) /\ registry'[k] = Entry(0)]_vars

C3_Witness ==
  \E s \in Slots :
    /\ req[s].pc = "done" /\ req[s].outcome = "returned"
    /\ req[s].graphExists = "no"
    /\ req[s].seen > SoftStaleMinutes * TicksPerMinute
    /\ req[s].seen <= HardStaleMinutes * TicksPerMinute
    /\ req[s].resp.kind = "Starting Code Analysis"
    /\ Has(registry, KeyOf(s)) /\ registry[KeyOf(s)].age = 0

\* The pipeline of slot s found no callers and saw the registry view `view`.
EmptyCallers(s, view) ==
  req[s].graphExists = "yes" /\ pipe[s].progress = view
\* The callback of slot s gets the pipeline's value: the 8 second timer did
\* not fire first and the pipeline's promise did not reject.
Delivered(s) == ~req[s].timedOut /\ ~pipe[s].rejected

\* C4 as stated: whenever the graph exists, the caller query returns 0
\* callers and getCreationProgress(key) reports inProgress = true, the
\* response is the "Graph Creation Still In Progress" message.
C4_Original ==
  \A s \in Slots :
    Responded(s) /\ EmptyCallers(s, "active")
    => req[s].resp.kind = "Graph Creation Still In Progress"

\* C4 as amended: in that case the empty-callers branch produces the "Graph
\* Creation Still In Progress" message naming the key, and the response is
\* that message unless the 8 second timer fired first or the close of the
\* pipeline's connection failed, when it is the timeout advisory; it is never
\* the "No calling functions found" message.
C4_GraphReadyEmptyBuildActive ==
  \A s \in Slots :
    EmptyCallers(s, "active")
    => /\ pipe[s].pending.kind = "Graph Creation Still In Progress"
       /\ pipe[s].pending.key = KeyOf(s)
       /\ (Responded(s)
           => /\ req[s].resp # NoCallingFunctionsFound
              /\ req[s].resp = IF Delivered(s) THEN pipe[s].pending
                               ELSE SearchTimeout)

C4_Witness ==
  \E s \in Slots :
    /\ req[s].pc = "done" /\ req[s].outcome = "returned"
    /\ EmptyCallers(s, "active") /\ Delivered(s)
    /\ req[s].resp.kind = "Graph Creation Still In Progress"

\* C5 as stated: whenever the graph exists, the caller query returns 0
\* callers and the key has no active build, the response is the "No calling
\* functions found" message, no lock is set and no build is triggered.
C5_Original ==
  \A s \in Slots :
    Responded(s) /\ EmptyCallers(s, "idle")
    => /\ req[s].resp = NoCallingFunctionsFound
       /\ req[s].triggers = 0

\* C5 as amended: in that case the empty-callers branch produces the "No
\* calling functions found" message, and the response is that message unless
\* the 8 second timer fired first or the close of the pipeline's connection
\* failed, when it is the timeout advisory; the branch leaves the key without
\* a record and the request issues no build request.
C5_GraphReadyEmptyIdle ==
  /\ [](\A s \in Slots :
          EmptyCallers(s, "idle")
          => /\ pipe[s].pending = NoCallingFunctionsFound
             /\ req[s].triggers = 0
             /\ "trigger" \notin req[s].calls
             /\ (Responded(s)
                 => req[s].resp = IF Delivered(s) THEN NoCallingFunctionsFound
                                  ELSE SearchTimeout))
  /\ [][\A s \in Slots :
          pipe[s].progress = "none" /\ pipe'[s].progress = "idle"
          => ~Has(registry', KeyOf(s))]_vars

C5_Witness ==
  \E s \in Slots :
    /\ req[s].pc = "done" /\ req[s].outcome = "returned"
    /\ EmptyCallers(s, "idle") /\ Delivered(s)
    /\ req[s].resp = NoCallingFunctionsFound
    /\ req[s].triggers = 0
    /\ ~Has(registry, KeyOf(s))

\* C7: when the 8 second timer fires before the "query graph then enrich
\* every caller" unit has completed, the response is the timeout advisory,
\* and it stays the advisory when the pipeline's result arrives later; a
\* success response holds exactly one rendered example for every caller row
\* the query returned, in order, and is the result of the completed unit.
C7_WholeOperationDeadline ==
  \A s \in Slots :
    Responded(s)
    => /\ (req[s].timedOut => req[s].resp = SearchTimeout)
       /\ (req[s].resp.kind = "Code Example Results"
           => /\ ~req[s].timedOut
              /\ pipe[s].pc = "settled"
              /\ pipe[s].rows # <<>>
              /\ req[s].resp.found = Len(pipe[s].rows)
              /\ DOMAIN req[s].resp.examples = DOMAIN pipe[s].rows
              /\ \A i \in DOMAIN pipe[s].rows :
                   /\ req[s].resp.examples[i].name = pipe[s].rows[i]
                   /\ pipe[s].fetched[i] # "pending")

C7_Witness ==
  \E s \in Slots :
    /\ req[s].pc = "done" /\ req[s].timedOut
    /\ req[s].resp = SearchTimeout
    /\ pipe[s].pc = "settled" /\ ~pipe[s].rejected
    /\ pipe[s].pending.kind = "Code Example Results"
    /\ Len(pipe[s].rows) = MaxCallers

GetAfterSetLock ==
  /\ lastOp.op = "getCreationProgress"
  /\ lastOp.prev.op = "setCreationLock"
  /\ lastOp.prev.status
  /\ lastOp.prev.key = lastOp.key

\* C10 as stated: for every key and every prior registry state,
\* setCreationLock(k, true) followed immediately by getCreationProgress(k)
\* yields inProgress = true and elapsedMinutes = 0.
C10_Original ==
  GetAfterSetLock
  => lastOp.view.inProgress /\ lastOp.view.elapsedMinutes = 0

\* C10 as amended: for every key that has no record in the prior registry
\* state, setCreationLock(k, true) followed immediately by
\* getCreationProgress(k) yields inProgress = true and elapsedMinutes = 0;
\* for a key that has a record the lock keeps that record's timestamp, and
\* getCreationProgress(k) yields inProgress = true with that record's
\* elapsed minutes, or inProgress = false when they exceed 20.
C10_LockThenProgress ==
  GetAfterSetLock
  => IF lastOp.prev.before = -1
     THEN lastOp.view.inProgress /\ lastOp.view.elapsedMinutes = 0
     ELSE IF Minutes(lastOp.prev.before) > HardStaleMinutes
     THEN ~lastOp.view.inProgress
     ELSE /\ lastOp.view.inProgress
          /\ lastOp.view.elapsedMinutes = Minutes(lastOp.prev.before)

C10_Witness ==
  /\ GetAfterSetLock
  /\ lastOp.prev.before = -1
  /\ lastOp.view.inProgress /\ lastOp.view.elapsedMinutes = 0
  /\ \E k \in Keys : k # lastOp.key /\ Has(registry, k) /\ registry[k].age > 0

\* C6: for every request whose owner or repo is missing or blank the
\* response is the validation-error message and the request makes no
\* graph-store call and no network call at all (no connect, list, query,
\* close, file fetch or build trigger).
C6_InvalidRequest ==
  \A s \in Slots :
    Responded(s) /\ InvalidRequest(req[s].repoData)
    => /\ req[s].resp = ValidationError
       /\ req[s].calls = {}

\* C9: with two requests with valid repository data for different
\* repositories in flight against a store that does not fail, each request
\* fares as it would alone: a request whose
\* graph is in the store is told so by its existence check, issues no build
\* request and leaves its key without a record, and the record of the other
\* request's key is none of its doing.
C9_NoInterference ==
  \A s \in Slots :
    Responded(s) /\ ~InvalidRequest(req[s].repoData)
      /\ GraphName(req[s].repoData) \in graphs
      /\ (\A t \in Slots \ {s} :
            req[t].pc = "idle" \/ ~InvalidRequest(req[t].repoData))
    => /\ req[s].graphExists = "yes"
       /\ req[s].resp.kind \notin {"Starting Code Analysis",
                                   "Graph Creation In Progress"}
       /\ req[s].triggers = 0
       /\ ~Has(registry, KeyOf(s))

\* The registry operation just called, op(k).
Called(op, k) == lastOp.op = op /\ lastOp.key = k

\* C11: for every key and every prior registry state, setCreationLock(k,
\* false) leaves no record for k and changes no other record, a
\* getCreationProgress(k) that follows it yields the not-in-progress
\* "Complete" view, and a second setCreationLock(k, false) leaves the registry
\* unchanged.
C11_ClearLock ==
  /\ [](\A k \in Keys :
          /\ (Called("setCreationLock", k) /\ ~lastOp.status
              => ~Has(registry, k))
          /\ (Called("getCreationProgress", k)
                /\ lastOp.prev.op = "setCreationLock"
                /\ lastOp.prev.key = k /\ ~lastOp.prev.status
              => lastOp.view = NotInProgressView))
  /\ [][\A k \in Keys :
          lastOp'.op = "setCreationLock" /\ lastOp'.key = k /\ ~lastOp'.status
          => /\ \A j \in Keys \ {k} :
                  /\ Has(registry', j) <=> Has(registry, j)
                  /\ Has(registry, j) => registry'[j] = registry[j]
             /\ (Called("setCreationLock", k) /\ ~lastOp.status
                 => registry' = registry)]_vars

C11_Witness ==
  \E k \in Keys :
    /\ Called("getCreationProgress", k)
    /\ lastOp.prev.op = "setCreationLock"
    /\ lastOp.prev.key = k /\ ~lastOp.prev.status
    /\ lastOp.prev.before > 0
    /\ ~lastOp.view.inProgress
    /\ \E j \in Keys \ {k} : Has(registry, j)

\* The record of k is the same build in both states of a step: the start
\* timestamp is kept, so the age is the same or, when the clock ticked, one
\* tick more.
SameStart(k) ==
  \/ registry'[k].age = registry[k].age
  \/ /\ lastOp' = NoOp
     /\ registry'[k].age = IF registry[k].age < MaxAge
                           THEN registry[k].age + 1 ELSE MaxAge

\* C12: setCreationLock(k, true) on a key that has a record keeps the
\* record's start timestamp, so a getCreationProgress(k) that follows reports
\* the record's elapsed minutes and not 0; over every step of the registry
\* operations and the graph-missing branch a record that is there before and
\* after keeps its start timestamp, except that the graph-missing branch
\* deletes a record of 5 elapsed minutes or more and starts anew.
C12_RearmKeepsClock ==
  /\ [][\A k \in Keys :
          Has(registry, k) /\ Has(registry', k)
          => \/ SameStart(k)
             \/ /\ lastOp'.op = "graphMissingBranch" /\ lastOp'.key = k
                /\ Minutes(registry[k].age) >= ForceClearMinutes
                /\ registry'[k].age = 0]_vars
  /\ [](\A k \in Keys :
          Called("getCreationProgress", k)
            /\ lastOp.prev.op = "setCreationLock"
            /\ lastOp.prev.key = k /\ lastOp.prev.status
            /\ lastOp.prev.before >= 0
            /\ Minutes(lastOp.prev.before) <= HardStaleMinutes
          => lastOp.view.elapsedMinutes = Minutes(lastOp.prev.before))

C12_Witness ==
  \E k \in Keys :
    /\ Called("getCreationProgress", k)
    /\ lastOp.prev.op = "setCreationLock"
    /\ lastOp.prev.key = k /\ lastOp.prev.status
    /\ lastOp.prev.before >= TicksPerMinute
    /\ lastOp.view.inProgress
    /\ lastOp.view.elapsedMinutes >= 1

\* C13: getCreationProgress(k) on a record whose age exceeds 20 minutes
\* deletes the record and returns the not-in-progress view, and it never
\* reports inProgress = true for a record older than 20 minutes.
C13_HardStaleness ==
  \A k \in Keys :
    Called("getCreationProgress", k)
      /\ lastOp.before > HardStaleMinutes * TicksPerMinute
    => /\ lastOp.view = NotInProgressView
       /\ ~Has(registry, k)

\* C14: clearStaleLocks(k) leaves the registry unchanged when the record of k
\* is younger than 10 minutes or absent, and leaves no record of k when the
\* record was older than 10 minutes.
C14_ClearStaleLocks ==
  \A k \in Keys :
    Called("clearStaleLocks", k)
    => /\ (lastOp.before >= 0 /\ lastOp.before < SoftStaleMinutes * TicksPerMinute
           => Has(registry, k) /\ registry[k].age = lastOp.before)
       /\ (lastOp.before > SoftStaleMinutes * TicksPerMinute
           => ~Has(registry, k))

\* C16: the request that starts a build chooses the "Starting Code Analysis"
\* response and sets the lock in the step that issues the build request,
\* which is then still in flight; when the build request settles - 2xx,
\* another status, timeout or error - the registry, the lock included, and
\* every invocation with its response are left as they were.
C16_TriggerFailureInvisible ==
  /\ [][\A s \in Slots :
          TakesGraphMissing(s) /\ req'[s].triggers = 1
          => LET k == RepoKey(req'[s].repoData)
             IN /\ trig'[s] = Triggered(k)
                /\ req'[s].resp = StartingCodeAnalysis(k)
                /\ Has(registry', k)]_vars
  /\ [][lastOp'.op = "triggerSettled"
        => /\ trig[lastOp'.slot] = Triggered(lastOp'.key)
           /\ registry' = registry
           /\ req' = req]_vars

C16_Witness ==
  /\ lastOp.op = "triggerSettled"
  /\ lastOp.outcome \in {"non2xx", "timeout", "error"}
  /\ req[lastOp.slot].pc = "done"
  /\ req[lastOp.slot].outcome = "returned"
  /\ req[lastOp.slot].resp = StartingCodeAnalysis(lastOp.key)
  /\ Has(registry, lastOp.key)
  /\ registry[lastOp.key].age = 0

\* The response shapes of the state table.
FixedShapes ==
  {"Error: Invalid repository data", "Code Example Results",
   "Graph Creation Still In Progress", "No calling functions found",
   "Search Timeout", "Graph Creation In Progress", "Starting Code Analysis"}

\* C17: every request that ends has returned a response of one of the fixed
\* shapes to the tool-calling layer; it never ends by raising, including when
\* closing the graph-store connection fails.
C17_AlwaysAFixedResponse ==
  \A s \in Slots :
    req[s].pc = "done"
    => /\ req[s].outcome = "returned"
       /\ req[s].resp.kind \in FixedShapes

\* C19: every graph-store connection that the existence check has opened and
\* that is still open is the client of the shared service, the one
\* disconnect() closes: no open connection is orphaned.
C19_NoOrphanedConnection ==
  \A c \in ConnIds : conn[c] = "open" => svcClient = c

\* C18: every request that was invoked eventually returns a response, also
\* when the graph store or an external service never answers.
C18_BoundedLatency ==
  \A s \in Slots :
    (req[s].pc \notin {"idle", "done"}) ~> (req[s].pc = "done")

C15_SupervisedBackgroundBuild ==
  /\ [](bg.pc = "ended" => bg.outcome = "returned")
  /\ [][Has(registry, RepoKey(bg.repoData)) /\ ~Has(registry', RepoKey(bg.repoData))
        => /\ bg.pc = "ended"
           /\ bg.sinceEnd >= GraceMinutes * TicksPerMinute
           /\ bg'.cleared]_vars
  /\ (bg.pc = "ended")
       ~> (bg.cleared /\ ~Has(registry, RepoKey(bg.repoData)))

C15_Witness ==
  /\ bg.pc = "ended" /\ bg.cleared
  /\ bg.way = "exhausted"
  /\ bg.attempts = MaxAttempts
  /\ bg.outcome = "returned"
  /\ ~Has(registry, RepoKey(bg.repoData))


\* The responses of the graph-missing branch.
GraphNotFoundShapes == {"Graph Creation In Progress", "Starting Code Analysis"}

\* C21 (as stated): the timeout advisory is returned only when the 8 second
\* timer fired.
C21_Original ==
  \A s \in Slots :
    Responded(s) /\ req[s].resp = SearchTimeout => req[s].timedOut

\* C21: whenever checkGraphExists ends without having found the graph - the
\* connection or the listing failed, or the graph is not listed - the callback
\* does not raise in that step and chooses a response of the graph-missing
\* branch (in progress, or analysis started); the timeout advisory is the
\* response exactly of the requests whose 8 second timer fired or whose
\* pipeline (its connection, query, branch lookup or close) failed before.
C21_StoreFailureDowngraded ==
  /\ [][\A s \in Slots :
          /\ req[s].pc \in {"connecting", "listing"}
          /\ req'[s].pc \notin {"connecting", "listing", "racing"}
          => /\ req'[s].graphExists = "no"
             /\ req'[s].outcome # "raised"
             /\ req'[s].resp.kind \in GraphNotFoundShapes
             /\ ~req'[s].timedOut]_vars
  /\ [][\A s \in Slots :
          req[s].pc = "racing" /\ req'[s].pc # "racing"
          => /\ req'[s].resp = SearchTimeout
                <=> (req'[s].timedOut \/ pipe'[s].rejected)
             /\ req'[s].resp.kind \notin GraphNotFoundShapes]_vars

\* connect() of the existence check failed while the store holds the graph:
\* the request was answered as for an absent graph.
C21_Witness ==
  \E s \in Slots :
    /\ req[s].pc = "done" /\ req[s].outcome = "returned"
    /\ req[s].calls = {"connect", "trigger"}
    /\ GraphName(req[s].repoData) \in graphs
    /\ req[s].graphExists = "no"
    /\ req[s].resp = StartingCodeAnalysis(KeyOf(s))

\* C22: in the state in which the build request of a request path is first in
\* flight the lock of its key is already set and the "Starting Code Analysis"
\* response is already chosen (the callback is in its finally block or has
\* returned, it does not wait for the build request); the lock stays set for
\* as long as the build request is in flight; and neither the settling of the
\* build request, whatever its outcome, nor a later step of the request that
\* issued it changes the registry.
C22_ImmediateFireOrdering ==
  /\ [][\A s \in Slots :
          trig[s].status = "none" /\ trig'[s].status = "pending"
          => /\ trig'[s].key = RepoKey(req'[s].repoData)
             /\ ~Has(registry, trig'[s].key) \/ registry[trig'[s].key].age > 0
             /\ Has(registry', trig'[s].key)
             /\ registry'[trig'[s].key].age = 0
             /\ Responded(s)'
             /\ req'[s].resp = StartingCodeAnalysis(trig'[s].key)]_vars
  /\ [](\A s \in Slots :
          trig[s].status = "pending" => Has(registry, trig[s].key))
  /\ [][\A s \in Slots :
          trig[s].status = "pending" /\ trig'[s].status = "none"
          => registry' = registry /\ req' = req]_vars
  /\ [][\A s \in Slots :
          /\ Responded(s) /\ req[s].triggers = 1
          /\ req'[s] # req[s]
          => registry' = registry]_vars

\* The callback has returned "Starting Code Analysis" while its build request
\* is still in flight and the lock is set.
C22_Witness ==
  \E s \in Slots :
    /\ req[s].pc = "done" /\ req[s].outcome = "returned"
    /\ req[s].triggers = 1
    /\ trig[s] = Triggered(KeyOf(s))
    /\ req[s].resp = StartingCodeAnalysis(KeyOf(s))
    /\ Has(registry, KeyOf(s))

\* The routine is inside an existence check of its polling loop.
BgPolling == bg.pc \in {"connecting", "listing"} /\ bg.attempts > 0

C24_ProgressView ==
  [][\A k \in Keys :
       lastOp'.op = "getCreationProgress" /\ lastOp'.key = k
       => LET view == lastOp'.view
              kept == /\ Has(registry, k) /\ registry[k].inProgress
                      /\ Minutes(registry[k].age) <= 20
          IN /\ view.inProgress <=> kept
             /\ kept
                => /\ registry' = registry
                   /\ view.elapsedMinutes = Minutes(registry[k].age)
                   /\ view.elapsedMinutes < 10
                      => /\ view.phase = "Analyzing repository"
                         /\ view.estimatedRemaining = "5-10 minutes"
                   /\ view.elapsedMinutes >= 10
                      => /\ view.phase = "Completing analysis"
                         /\ view.estimatedRemaining = "Should complete soon"
                   /\ view.phase # registry[k].phase]_vars

\* A progress view taken 10 whole minutes and a part of a minute after the
\* record was stamped.
C24_Witness ==
  /\ lastOp.op = "getCreationProgress"
  /\ lastOp.view.inProgress
  /\ lastOp.before % TicksPerMinute # 0
  /\ lastOp.view.elapsedMinutes = 10
  /\ lastOp.view.phase = "Completing analysis"
  /\ Has(registry, lastOp.key)
  /\ registry[lastOp.key].phase = "Initializing analysis"

\* C25: in whatever order the enrichments of the callers ended, a success
\* response reports as "Found N" the number of rows the graph query returned
\* and lists N code examples; the i-th of them is numbered i, names the
\* caller of the i-th row and holds what the file fetch of that caller
\* yielded.
C25_OutputOrder ==
  \A s \in Slots :
    pipe[s].pending.kind = "Code Example Results"
    => LET rows == pipe[s].rows
           out == pipe[s].pending
       IN /\ out.found = Len(rows)
          /\ DOMAIN out.examples = DOMAIN rows
          /\ DOMAIN pipe[s].order = DOMAIN rows
          /\ \A i \in DOMAIN rows :
               /\ out.examples[i].index = i
               /\ out.examples[i].name = rows[i]
               /\ out.examples[i].body = EnrichBody(pipe[s].fetched[i])
          /\ Responded(s) /\ req[s].resp.kind = "Code Example Results"
             => req[s].resp = out

\* The enrichment of the second caller ended before that of the first, with a
\* different result, and the success response was returned.
C25_Witness ==
  \E s \in Slots :
    /\ req[s].pc = "done" /\ req[s].outcome = "returned"
    /\ req[s].resp.kind = "Code Example Results"
    /\ req[s].resp.found = 2
    /\ pipe[s].order = <<2, 1>>
    /\ pipe[s].fetched = <<"text", "timeout">>
    /\ req[s].resp.examples[1].name = pipe[s].rows[1]
    /\ req[s].resp.examples[1].body = "snippet"

\* The line number a padded label stands for: the spaces in front are
\* dropped and the digits are read as a decimal number.
RECURSIVE DigitsValue(_)
DigitsValue(str) ==
  IF str = <<>> THEN 0
  ELSE 10 * DigitsValue(SubSeq(str, 1, Len(str) - 1))
       + (CHOOSE d \in 0..9 : Digits[d + 1] = str[Len(str)])
RECURSIVE LabelNumber(_)
LabelNumber(label) ==
  IF label # <<>> /\ label[1] = " "
  THEN LabelNumber(SubSeq(label, 2, Len(label)))
  ELSE DigitsValue(label)

\* C26: for a file of N lines and a target line t in 1..N the rendered
\* snippet has one entry for each of the lines max(1, t-5) .. min(N, t+5), in
\* file order; each entry holds the text of its line and a label that reads
\* as its 1-based line number; the entry of line t carries ">>>" and every
\* other entry three spaces.
C26_SnippetWindow ==
  lastOp.op = "codeSnippet" /\ lastOp.fileContent # <<>>
  => LET lines == Split(lastOp.fileContent)
         N == Len(lines)
         t == lastOp.line
         first == IF t - 5 > 1 THEN t - 5 ELSE 1
         last == IF t + 5 < N THEN t + 5 ELSE N
         out == lastOp.result.snippet
     IN t \in 1..N
        => /\ lastOp.result.kind = "snippet"
           /\ Len(out) = last - first + 1
           /\ \A j \in DOMAIN out :
                /\ LabelNumber(out[j].number) = first + j - 1
                /\ Len(out[j].number) >= 3
                /\ out[j].codeLine = lines[first + j - 1]
                /\ out[j].marker = IF first + j - 1 = t THEN ">>>" ELSE "   "
           /\ Cardinality({j \in DOMAIN out : out[j].marker = ">>>"}) = 1

\* A file of 13 lines rendered around line 7: lines 2 to 12, neither the
\* first nor the last line of the file.
C26_Witness ==
  /\ lastOp.op = "codeSnippet"
  /\ Len(Split(lastOp.fileContent)) = 13
  /\ lastOp.line = 7
  /\ Len(lastOp.result.snippet) = 11
  /\ lastOp.result.snippet[6].marker = ">>>"
  /\ lastOp.result.snippet[11].number = <<" ", "1", "2">>

\* C27: for a file of N lines and a target line below 1 or above N the
\* result is a rendered snippet, not the fallback, with at least one entry,
\* and every entry is labelled with a line number in 1..N and holds the text
\* of that line.
C27_ClampOutOfRange ==
  lastOp.op = "codeSnippet" /\ lastOp.fileContent # <<>>
  => LET lines == Split(lastOp.fileContent)
         N == Len(lines)
         t == lastOp.line
         out == lastOp.result.snippet
     IN t < 1 \/ t > N
        => /\ lastOp.result.kind = "snippet"
           /\ out # <<>>
           /\ \A j \in DOMAIN out :
                /\ LabelNumber(out[j].number) \in 1..N
                /\ out[j].codeLine = lines[LabelNumber(out[j].number)]

\* Two invocations that have both taken the graph-missing branch for the same
\* key and have not been retired.
BothMissing(s, t) ==
  /\ s # t
  /\ Responded(s) /\ Responded(t)
  /\ req[s].graphExists = "no" /\ req[t].graphExists = "no"
  /\ KeyOf(s) = KeyOf(t)

\* C28: of two requests in flight at once for the same key that both find
\* the graph absent, at most one found no record; and when one found no
\* record and the other a record less than 5 minutes old, the first has
\* issued the build request and the other has issued none and answers with
\* the "Graph Creation In Progress" message.
C28_CheckThenSet ==
  \A s, t \in Slots :
    BothMissing(s, t)
    => /\ ~(req[s].seen = -1 /\ req[t].seen = -1)
       /\ (req[s].seen = -1 /\ req[t].seen >= 0 /\ Minutes(req[t].seen) < 5)
          => /\ req[s].triggers = 1 /\ req[t].triggers = 0
             /\ req[s].resp = StartingCodeAnalysis(KeyOf(s))
             /\ req[t].resp.kind = "Graph Creation In Progress"

\* Both requests were waiting for the store when the first of them took the
\* branch; the second took it in the same half minute.
C28_Witness ==
  /\ BothMissing("r1", "r2")
  /\ req["r1"].seen = 0 /\ req["r1"].triggers = 0
  /\ req["r1"].resp.kind = "Graph Creation In Progress"
  /\ req["r2"].seen = -1 /\ req["r2"].triggers = 1
  /\ req["r1"].pc = "done" /\ req["r2"].pc = "done"
  /\ trig["r2"].status = "pending"

\* C29: when the deferred step of startBackgroundCreation deletes the record
\* of its key, that record is at least as old as the routine: it was not
\* created by a build start that came after the routine was called.
C29_DeferredClearOwnRecord ==
  [][LET k == RepoKey(bg.repoData)
     IN /\ bg.pc = "ended" /\ ~bg.cleared /\ bg'.cleared
        /\ Has(registry, k) /\ ~Has(registry', k)
        => registry[k].age >= bg.age]_vars

\* C30: while the existence check of a request waits for list(), the
\* connection it uses stays open and stays the client of the service,
\* whatever another request - one with invalid repository data included -
\* does in its finally block; and a request whose graph the store holds is
\* told so, is not answered as for an absent graph and issues no build
\* request.
C30_CheckNotFailedByCleanup ==
  \A s \in Slots :
    /\ req[s].pc = "listing"
       => /\ req[s].client \in ConnIds
          /\ conn[req[s].client] = "open"
          /\ svcClient = req[s].client
    /\ Responded(s) /\ ~InvalidRequest(req[s].repoData)
         /\ GraphName(req[s].repoData) \in graphs
       => /\ req[s].graphExists = "yes"
          /\ req[s].triggers = 0
          /\ trig[s].status = "none"

\* C31: every record in the registry has inProgress = true and an age that
\* is not negative (its timestamp is not later than the current time); and
\* what getCreationProgress and isCreationInProgress report as in progress
\* is exactly the presence of the key's record once they have returned.
C31_RegistryRepresentation ==
  /\ \A k \in DOMAIN registry :
       /\ registry[k].inProgress = TRUE
       /\ registry[k].age \in 0..MaxAge
  /\ lastOp.op = "getCreationProgress"
     => (lastOp.view.inProgress <=> Has(registry, lastOp.key))
  /\ lastOp.op = "isCreationInProgress"
     => (lastOp.result <=> Has(registry, lastOp.key))

\* The deferred step of the supervised routine has cleared the lock, the
\* lock was set again later, and the progress is read while it is held.
C31_Witness ==
  /\ bg.cleared
  /\ lastOp.op = "getCreationProgress"
  /\ lastOp.view.inProgress
  /\ Has(registry, lastOp.key)
  /\ registry[lastOp.key].age > 0
  /\ registry[lastOp.key].age < bg.age

\* A step of the query path of slot s: its pipeline moves, or the callback
\* that found the graph in the store moves.
QueryPathStep(s) ==
  \/ pipe'[s] # pipe[s] /\ pipe[s].pc # "none" /\ pipe'[s].pc # "none"
  \/ req[s].graphExists = "yes" /\ req'[s] # req[s]

\* C32: a step of a request on the graph-exists branch issues no build
\* request, and it leaves the registry as it was or deletes the record of
\* the request's key, which was then more than 20 minutes old; it neither
\* creates a record nor changes the age of one.
C32_QueryPathFrame ==
  [][\A s \in Slots :
       QueryPathStep(s)
       => LET k == RepoKey(req[s].repoData)
          IN /\ trig' = trig
             /\ req'[s].triggers = 0
             /\ "trigger" \notin req'[s].calls
             /\ \/ registry' = registry
                \/ /\ Has(registry, k)
                   /\ registry[k].age > 20 * TicksPerMinute
                   /\ registry' = Delete(registry, k)]_vars

\* The empty-callers branch has just found the record of its key more than
\* 20 minutes old and evicted it.
C32_Witness ==
  /\ lastOp.op = "emptyCallersBranch"
  /\ lastOp.before > 20 * TicksPerMinute
  /\ lastOp.progress = "idle"
  /\ ~Has(registry, lastOp.key)
  /\ \E s \in Slots :
       /\ KeyOf(s) = lastOp.key
       /\ pipe[s].pc = "closing"
       /\ pipe[s].pending = NoCallingFunctionsFound

\* C33: a request issues a build request only when its key has no record or
\* a record of 5 or more whole minutes, and the record it leaves is new; a
\* request that takes the graph-missing branch leaves a record of less than
\* 5 minutes; and between two build requests the record is the clock: its
\* age is set back only by a request that issues a build request, and it is
\* removed without one only when it is more than 20 minutes old.  So two
\* build requests for a key are 5 minutes or more apart.
C33_TriggerSpacing ==
  /\ [][\A s \in Slots :
          TakesGraphMissing(s)
          => LET k == RepoKey(req'[s].repoData)
             IN /\ Has(registry', k)
                /\ registry'[k].inProgress
                /\ Minutes(registry'[k].age) < 5
                /\ req'[s].triggers = 1
                   => /\ ~Has(registry, k) \/ Minutes(registry[k].age) >= 5
                      /\ registry'[k].age = 0
                /\ req'[s].triggers = 0 => registry' = registry]_vars
  /\ [][\A k \in DOMAIN registry :
          \/ /\ Has(registry', k)
             /\ registry'[k].age >= registry[k].age
          \/ /\ Has(registry', k)
             /\ registry'[k].age = 0
             /\ Minutes(registry[k].age) >= 5
             /\ \E s \in Slots :
                  /\ TakesGraphMissing(s) /\ req'[s].triggers = 1
                  /\ RepoKey(req'[s].repoData) = k
          \/ /\ ~Has(registry', k)
             /\ registry[k].age > 20 * TicksPerMinute]_vars

\* A request has found the lock between 5 and 10 minutes old, cleared it by
\* force and issued the second build request for the key.
C33_Witness ==
  \E s \in Slots :
    /\ req[s].pc = "done" /\ req[s].outcome = "returned"
    /\ req[s].triggers = 1
    /\ Minutes(req[s].seen) >= 5 /\ Minutes(req[s].seen) < 10
    /\ req[s].resp = StartingCodeAnalysis(KeyOf(s))
    /\ Has(registry, KeyOf(s)) /\ registry[KeyOf(s)].age = 0
=============================================================================
